---- MODULE Spec2Model ----
(***************************************************************************)
(* A model of the ministr crate: the NonEmptyStr / NonEmptyString wrappers *)
(* (src/src/non_empty_str.rs, src/src/non_empty_string.rs) and the FNV-1a  *)
(* string hash (src/src/hash.rs).                                          *)
(*                                                                         *)
(* A `str` and a `String` are modelled by their contents: the sequence of  *)
(* bytes of their UTF-8 encoding.  A wrapper is a record that names its    *)
(* type and holds its only field, f0.  A call's outcome is a record:       *)
(* Return(v), Panic(message) or UB(v), UB being a call whose safety        *)
(* precondition was violated in a build that does not check it (v is what  *)
(* the unchecked code computes).                                           *)
(***************************************************************************)
EXTENDS Integers, Sequences, FiniteSets, TLC

VARIABLES build, view, owned, last, panic, ub, hin, hpc, hpos, hash

wvars == <<view, owned>>
hvars == <<hin, hpc, hpos, hash>>
vars == <<build, view, owned, last, panic, ub, hin, hpc, hpos, hash>>

----------------------------------------------------------------------------
(* Bounds and input domains *)

\* the number of characters of an input text of the wrappers
MaxLen == 2

\* the number of characters of an input text of the hash functions
MaxHashLen == 3

\* 'a' and U+00E9 (two bytes in UTF-8)
Chars == {97, 233}

\* 'f', 'o' and U+00E9
HashChars == {102, 111, 233}

\* the UTF-8 encoding of one character (up to U+FFFF)
Utf8(c) ==
    IF c < 128 THEN <<c>>
    ELSE IF c < 2048 THEN <<192 + (c \div 64), 128 + (c % 64)>>
    ELSE <<224 + (c \div 4096), 128 + ((c \div 64) % 64), 128 + (c % 64)>>

RECURSIVE Encode(_)
Encode(cs) == IF cs = <<>> THEN <<>> ELSE Utf8(Head(cs)) \o Encode(Tail(cs))

CharSeqs(alphabet, n) == UNION {[1..k -> alphabet] : k \in 0..n}

\* the plain texts (possibly empty) the program can be given
Texts == {Encode(cs) : cs \in CharSeqs(Chars, MaxLen)}

HashTexts == {Encode(cs) : cs \in CharSeqs(HashChars, MaxHashLen)}

Builds == {"debug", "release"}

----------------------------------------------------------------------------
(* Values of the standard library the code uses *)

None == [tag |-> "None"]
Some(v) == [tag |-> "Some", val |-> v]
Ok(v) == [tag |-> "Ok", val |-> v]
Err == [tag |-> "Err"]

Return(v) == [tag |-> "Return", val |-> v]
Panic(msg) == [tag |-> "Panic", val |-> msg]
UB(v) == [tag |-> "UB", val |-> v]

\* Option::ok_or(())
ok_or(opt) == IF opt.tag = "Some" THEN Ok(opt.val) ELSE Err

\* Some(..) of the value a call computes; a panic passes through
SomeOf(o) == IF o.tag = "Panic" THEN o ELSE [o EXCEPT !.val = Some(o.val)]

\* .ok_or(()) of the value a call computes; a panic passes through
OkOrOf(o) == IF o.tag = "Panic" THEN o ELSE [o EXCEPT !.val = ok_or(o.val)]

\* str::is_empty
is_empty(s) == Len(s) = 0

\* str::len: the length in bytes
str_len(s) == Len(s)

\* str::to_owned / String::clone: a copy of the bytes
str_to_owned(s) == SubSeq(s, 1, Len(s))

\* String::as_str / the deref coercion of &String to &str
String_as_str(s) == s

\* NonZeroUsize::new
NonZeroUsize_new(n) == IF n = 0 THEN None ELSE Some(n)

\* miniunchecked's unwrap_unchecked_dbg_msg: expect(msg) in a debug build,
\* unwrap_unchecked in a release build
unwrap_unchecked_dbg_msg(b, opt, msg) ==
    IF opt.tag = "Some" THEN Return(opt.val)
    ELSE IF b = "debug" THEN Panic(msg)
    ELSE UB(0)

----------------------------------------------------------------------------
(* NonEmptyStr: src/src/non_empty_str.rs *)

MkNonEmptyStr(s) == [ty |-> "NonEmptyStr", f0 |-> s]
MkNonEmptyString(s) == [ty |-> "NonEmptyString", f0 |-> s]

StrAssertMsg == "tried to create a non-empty string slice from an empty string"
StringAssertMsg == "tried to create a non-empty string from an empty string"
LenMsg == "non-empty strings have non-zero length"

\* mutant of NonEmptyStr::new_unchecked: the debug_assert! is missing
NonEmptyStr_new_unchecked_noassert(b, s) ==
    IF is_empty(s) THEN UB(MkNonEmptyStr(s)) ELSE Return(MkNonEmptyStr(s))

NonEmptyStr_new_unchecked(b, s) ==
    IF is_empty(s)
    THEN IF b = "debug" THEN Panic(StrAssertMsg) ELSE UB(MkNonEmptyStr(s))
    ELSE Return(MkNonEmptyStr(s))

NonEmptyStr_new(b, s) ==
    IF is_empty(s) THEN Return(None)
    ELSE SomeOf(NonEmptyStr_new_unchecked(b, s))

NonEmptyStr_as_str(self) == self.f0

NonEmptyStr_len_nonzero(b, self) ==
    unwrap_unchecked_dbg_msg(b, NonZeroUsize_new(str_len(self.f0)), LenMsg)

NonEmptyStr_deref(self) == NonEmptyStr_as_str(self)

TryFrom_str_for_NonEmptyStr(b, s) == OkOrOf(NonEmptyStr_new(b, s))

TryFrom_String_for_NonEmptyStr(b, s) ==
    OkOrOf(NonEmptyStr_new(b, String_as_str(s)))

\* From<&NonEmptyStr> for &str
From_NonEmptyStr_for_str(val) == NonEmptyStr_as_str(val)

\* From<&NonEmptyStr> for String
From_NonEmptyStr_for_String(val) == str_to_owned(NonEmptyStr_as_str(val))

\* From<&NonEmptyStr> for Cow<str>
From_NonEmptyStr_for_Cow(val) ==
    [variant |-> "Borrowed", val |-> NonEmptyStr_as_str(val)]

----------------------------------------------------------------------------
(* NonEmptyString: src/src/non_empty_string.rs *)

\* mutants of NonEmptyString::new: no check of emptiness; texts of one byte
\* rejected too
NonEmptyString_new_nocheck(s) == Some(MkNonEmptyString(s))

NonEmptyString_new_offbyone(s) ==
    IF Len(s) <= 1 THEN None ELSE Some(MkNonEmptyString(s))

NonEmptyString_new(s) ==
    IF is_empty(s) THEN None ELSE Some(MkNonEmptyString(s))

\* mutant of NonEmptyString::new_unchecked: the debug_assert! is inverted
NonEmptyString_new_unchecked_inverted(b, s) ==
    IF is_empty(s) THEN UB(MkNonEmptyString(s))
    ELSE IF b = "debug" THEN Panic(StringAssertMsg)
    ELSE Return(MkNonEmptyString(s))

NonEmptyString_new_unchecked(b, s) ==
    IF is_empty(s)
    THEN IF b = "debug" THEN Panic(StringAssertMsg) ELSE UB(MkNonEmptyString(s))
    ELSE Return(MkNonEmptyString(s))

\* mutant of NonEmptyString::from: only the first byte is copied
NonEmptyString_from_first_byte(b, s) ==
    NonEmptyString_new_unchecked(b, SubSeq(NonEmptyStr_as_str(s), 1, 1))

NonEmptyString_from(b, s) ==
    NonEmptyString_new_unchecked(b, str_to_owned(NonEmptyStr_as_str(s)))

NonEmptyString_from_unchecked(b, s) ==
    NonEmptyString_new_unchecked(b, str_to_owned(s))

NonEmptyString_as_str(self) == String_as_str(self.f0)

NonEmptyString_as_ne_str(b, self) ==
    NonEmptyStr_new_unchecked(b, String_as_str(self.f0))

NonEmptyString_inner(self) == self.f0

NonEmptyString_into_inner(self) == self.f0

\* mutant of NonEmptyString::len_nonzero: the length is one short
NonEmptyString_len_nonzero_short(b, self) ==
    unwrap_unchecked_dbg_msg(b, NonZeroUsize_new(str_len(self.f0) - 1), LenMsg)

NonEmptyString_len_nonzero(b, self) ==
    unwrap_unchecked_dbg_msg(b, NonZeroUsize_new(str_len(self.f0)), LenMsg)

\* #[derive(Clone)]
NonEmptyString_clone(self) == MkNonEmptyString(str_to_owned(self.f0))

NonEmptyString_deref(b, self) == NonEmptyString_as_ne_str(b, self)

AsRef_NonEmptyStr_for_NonEmptyString(b, self) == NonEmptyString_as_ne_str(b, self)

Borrow_NonEmptyStr_for_NonEmptyString(b, self) == NonEmptyString_as_ne_str(b, self)

From_NonEmptyString_for_NonEmptyStr(b, s) == NonEmptyString_as_ne_str(b, s)

TryFrom_str_for_NonEmptyString(s) == ok_or(NonEmptyString_new(str_to_owned(s)))

TryFrom_String_for_NonEmptyString(s) == ok_or(NonEmptyString_new(s))

\* mutant of TryFrom<Cow<str>>: an owned text is wrapped as it is
TryFrom_Cow_for_NonEmptyString_owned_unchecked(cow) ==
    IF cow.variant = "Borrowed"
    THEN TryFrom_str_for_NonEmptyString(cow.val)
    ELSE Ok(MkNonEmptyString(cow.val))

\* a Cow<str> is [variant |-> "Borrowed" or "Owned", val |-> its text]
TryFrom_Cow_for_NonEmptyString(cow) ==
    IF cow.variant = "Borrowed"
    THEN TryFrom_str_for_NonEmptyString(cow.val)
    ELSE TryFrom_String_for_NonEmptyString(cow.val)

From_NonEmptyStr_for_NonEmptyString(b, s) == NonEmptyString_from(b, s)

\* impl ToOwned for NonEmptyStr (non_empty_str.rs): self.into()
NonEmptyStr_to_owned(b, self) == From_NonEmptyStr_for_NonEmptyString(b, self)

\* From<&NonEmptyString> for &str
From_ref_NonEmptyString_for_str(val) == NonEmptyString_as_str(val)

\* From<NonEmptyString> for String
From_NonEmptyString_for_String(val) == NonEmptyString_into_inner(val)

\* mutant of From<NonEmptyString> for Cow<str>: Cow::Owned(String::new())
From_NonEmptyString_for_Cow_empty(val) == [variant |-> "Owned", val |-> <<>>]

\* From<NonEmptyString> for Cow<str>
From_NonEmptyString_for_Cow(val) ==
    [variant |-> "Owned", val |-> NonEmptyString_into_inner(val)]

\* From<&NonEmptyString> for Cow<str>
From_ref_NonEmptyString_for_Cow(val) ==
    [variant |-> "Borrowed", val |-> NonEmptyString_as_str(val)]

----------------------------------------------------------------------------
(* Comparisons.  An operand is a value and the type it is passed as (its  *)
(* kind): a wrapper or a plain text, by value or by reference.  An        *)
(* operator applied to a pair of kinds no impl covers does not compile:   *)
(* NoImpl.                                                                *)

StrKinds == {"NonEmptyStr", "&NonEmptyStr"}
StringKinds == {"NonEmptyString", "&NonEmptyString"}
WrapperKinds == StrKinds \cup StringKinds
PlainKinds == {"str", "&str", "String", "&String"}
Kinds == WrapperKinds \cup PlainKinds

IsRef(K) == K \in {"&NonEmptyStr", "&NonEmptyString", "&str", "&String"}

\* the type a reference kind refers to
Referent(K) ==
    CASE K = "&NonEmptyStr" -> "NonEmptyStr"
      [] K = "&NonEmptyString" -> "NonEmptyString"
      [] K = "&str" -> "str"
      [] K = "&String" -> "String"
      [] OTHER -> K

NoImpl == [tag |-> "NoImpl"]

\* <str as PartialEq>::eq: the bytes are equal
str_eq(x, y) == Len(x) = Len(y) /\ \A i \in 1..Len(x) : x[i] = y[i]

\* <str as Ord>::cmp: the bytes compared lexicographically
RECURSIVE str_cmp(_, _)
str_cmp(x, y) ==
    IF x = <<>> THEN (IF y = <<>> THEN "Equal" ELSE "Less")
    ELSE IF y = <<>> THEN "Greater"
    ELSE IF Head(x) < Head(y) THEN "Less"
    ELSE IF Head(x) > Head(y) THEN "Greater"
    ELSE str_cmp(Tail(x), Tail(y))

\* mutant of NonEmptyStr's equality: only the lengths are compared
NonEmptyStr_eq_len(x, y) == Len(x.f0) = Len(y.f0)

\* #[derive(PartialEq)] on NonEmptyStr(str)
NonEmptyStr_eq(x, y) == str_eq(x.f0, y.f0)

\* #[derive(PartialEq)] on NonEmptyString(String); String's eq compares the strs
NonEmptyString_eq(x, y) == str_eq(String_as_str(x.f0), String_as_str(y.f0))

\* #[derive(PartialOrd, Ord)] on NonEmptyStr(str)
NonEmptyStr_cmp(x, y) == str_cmp(x.f0, y.f0)

\* mutant of NonEmptyString's ordering: the shorter text first
NonEmptyString_cmp_shortlex(x, y) ==
    IF Len(x.f0) < Len(y.f0) THEN "Less"
    ELSE IF Len(x.f0) > Len(y.f0) THEN "Greater"
    ELSE str_cmp(x.f0, y.f0)

\* #[derive(PartialOrd, Ord)] on NonEmptyString(String)
NonEmptyString_cmp(x, y) == str_cmp(String_as_str(x.f0), String_as_str(y.f0))

\* <str as Hash>::hash: what the Hasher is fed, the bytes and then 0xff
str_hash(s) == s \o <<255>>

\* <String as Hash>::hash: the str is hashed
String_hash(s) == str_hash(String_as_str(s))

\* #[derive(Hash)] on NonEmptyStr(str): the field is hashed
NonEmptyStr_hash(self) == str_hash(self.f0)

\* mutant of NonEmptyString's Hash: the bytes without the terminator
NonEmptyString_hash_noterm(self) == String_as_str(self.f0)

\* #[derive(Hash)] on NonEmptyString(String): the field is hashed
NonEmptyString_hash(self) == String_hash(self.f0)

\* PartialEq::eq(x, y) with x passed as &L and y as &R: the impl the
\* compiler selects, and the call it delegates to
RECURSIVE PartialEq_eq(_, _, _, _, _)
PartialEq_eq(bd, L, R, x, y) ==
    CASE L = "str" /\ R = "str" -> Some(str_eq(x, y))
      \* derived
      [] L = "NonEmptyStr" /\ R = "NonEmptyStr" -> Some(NonEmptyStr_eq(x, y))
      [] L = "NonEmptyString" /\ R = "NonEmptyString" -> Some(NonEmptyString_eq(x, y))
      \* non_empty_str.rs: <NonEmptyStr>
      [] L = "NonEmptyStr" /\ R = "&NonEmptyStr" ->
            PartialEq_eq(bd, "NonEmptyStr", "NonEmptyStr", x, y)
      [] L = "&NonEmptyStr" /\ R = "NonEmptyStr" ->
            PartialEq_eq(bd, "NonEmptyStr", "NonEmptyStr", x, y)
      \* non_empty_str.rs: <str>
      [] L = "NonEmptyStr" /\ R = "str" ->
            PartialEq_eq(bd, "str", "str", NonEmptyStr_as_str(x), y)
      [] L = "NonEmptyStr" /\ R = "&str" ->
            PartialEq_eq(bd, "str", "str", NonEmptyStr_as_str(x), y)
      [] L = "&NonEmptyStr" /\ R = "str" ->
            PartialEq_eq(bd, "str", "str", NonEmptyStr_as_str(x), y)
      [] L = "str" /\ R = "NonEmptyStr" ->
            PartialEq_eq(bd, "str", "str", x, NonEmptyStr_as_str(y))
      [] L = "str" /\ R = "&NonEmptyStr" ->
            PartialEq_eq(bd, "str", "str", x, NonEmptyStr_as_str(y))
      [] L = "&str" /\ R = "NonEmptyStr" ->
            PartialEq_eq(bd, "str", "str", x, NonEmptyStr_as_str(y))
      \* non_empty_str.rs: <String>
      [] L = "NonEmptyStr" /\ R = "String" ->
            PartialEq_eq(bd, "str", "str", NonEmptyStr_as_str(x), String_as_str(y))
      [] L = "NonEmptyStr" /\ R = "&String" ->
            PartialEq_eq(bd, "str", "str", NonEmptyStr_as_str(x), String_as_str(y))
      [] L = "&NonEmptyStr" /\ R = "String" ->
            PartialEq_eq(bd, "str", "str", NonEmptyStr_as_str(x), String_as_str(y))
      [] L = "String" /\ R = "NonEmptyStr" ->
            PartialEq_eq(bd, "str", "str", String_as_str(x), NonEmptyStr_as_str(y))
      [] L = "String" /\ R = "&NonEmptyStr" ->
            PartialEq_eq(bd, "str", "str", String_as_str(x), NonEmptyStr_as_str(y))
      [] L = "&String" /\ R = "NonEmptyStr" ->
            PartialEq_eq(bd, "str", "str", String_as_str(x), NonEmptyStr_as_str(y))
      \* non_empty_str.rs: <NonEmptyString>
      [] L = "NonEmptyStr" /\ R = "NonEmptyString" ->
            PartialEq_eq(bd, "NonEmptyStr", "NonEmptyStr", x,
                         NonEmptyString_as_ne_str(bd, y).val)
      [] L = "NonEmptyStr" /\ R = "&NonEmptyString" ->
            PartialEq_eq(bd, "NonEmptyStr", "NonEmptyStr", x,
                         NonEmptyString_as_ne_str(bd, y).val)
      [] L = "&NonEmptyStr" /\ R = "NonEmptyString" ->
            PartialEq_eq(bd, "&NonEmptyStr", "NonEmptyStr", x,
                         NonEmptyString_as_ne_str(bd, y).val)
      \* non_empty_string.rs: <NonEmptyString>
      [] L = "NonEmptyString" /\ R = "&NonEmptyString" ->
            PartialEq_eq(bd, "NonEmptyString", "NonEmptyString", x, y)
      [] L = "&NonEmptyString" /\ R = "NonEmptyString" ->
            PartialEq_eq(bd, "NonEmptyString", "NonEmptyString", x, y)
      \* non_empty_string.rs: <str>
      [] L = "NonEmptyString" /\ R = "str" ->
            PartialEq_eq(bd, "str", "str", NonEmptyString_as_str(x), y)
      [] L = "NonEmptyString" /\ R = "&str" ->
            PartialEq_eq(bd, "str", "str", NonEmptyString_as_str(x), y)
      [] L = "&NonEmptyString" /\ R = "str" ->
            PartialEq_eq(bd, "str", "str", NonEmptyString_as_str(x), y)
      [] L = "str" /\ R = "NonEmptyString" ->
            PartialEq_eq(bd, "str", "str", x, NonEmptyString_as_str(y))
      [] L = "str" /\ R = "&NonEmptyString" ->
            PartialEq_eq(bd, "str", "str", x, NonEmptyString_as_str(y))
      [] L = "&str" /\ R = "NonEmptyString" ->
            PartialEq_eq(bd, "str", "str", x, NonEmptyString_as_str(y))
      \* non_empty_string.rs: <String>
      [] L = "NonEmptyString" /\ R = "String" ->
            PartialEq_eq(bd, "str", "str", NonEmptyString_as_str(x), String_as_str(y))
      [] L = "NonEmptyString" /\ R = "&String" ->
            PartialEq_eq(bd, "str", "str", NonEmptyString_as_str(x), String_as_str(y))
      [] L = "&NonEmptyString" /\ R = "String" ->
            PartialEq_eq(bd, "str", "str", NonEmptyString_as_str(x), String_as_str(y))
      [] L = "String" /\ R = "NonEmptyString" ->
            PartialEq_eq(bd, "str", "str", String_as_str(x), NonEmptyString_as_str(y))
      [] L = "String" /\ R = "&NonEmptyString" ->
            PartialEq_eq(bd, "str", "str", String_as_str(x), NonEmptyString_as_str(y))
      [] L = "&String" /\ R = "NonEmptyString" ->
            PartialEq_eq(bd, "str", "str", String_as_str(x), NonEmptyString_as_str(y))
      \* non_empty_string.rs: <NonEmptyStr>
      [] L = "NonEmptyString" /\ R = "NonEmptyStr" ->
            PartialEq_eq(bd, "NonEmptyStr", "NonEmptyStr",
                         NonEmptyString_as_ne_str(bd, x).val, y)
      [] L = "NonEmptyString" /\ R = "&NonEmptyStr" ->
            PartialEq_eq(bd, "NonEmptyStr", "NonEmptyStr",
                         NonEmptyString_as_ne_str(bd, x).val, y)
      [] L = "&NonEmptyString" /\ R = "NonEmptyStr" ->
            PartialEq_eq(bd, "NonEmptyStr", "NonEmptyStr",
                         NonEmptyString_as_ne_str(bd, x).val, y)
      \* core: impl PartialEq<&B> for &A where A: PartialEq<B>
      [] IsRef(L) /\ IsRef(R) -> PartialEq_eq(bd, Referent(L), Referent(R), x, y)
      [] OTHER -> NoImpl

\* PartialOrd::partial_cmp(x, y) with x passed as &L and y as &R
RECURSIVE PartialOrd_partial_cmp(_, _, _, _)
PartialOrd_partial_cmp(L, R, x, y) ==
    CASE L = "NonEmptyStr" /\ R = "NonEmptyStr" -> Some(NonEmptyStr_cmp(x, y))
      [] L = "NonEmptyString" /\ R = "NonEmptyString" -> Some(NonEmptyString_cmp(x, y))
      \* core: impl PartialOrd<&B> for &A where A: PartialOrd<B>
      [] IsRef(L) /\ IsRef(R) /\ L \in WrapperKinds /\ R \in WrapperKinds ->
            PartialOrd_partial_cmp(Referent(L), Referent(R), x, y)
      [] OTHER -> NoImpl

----------------------------------------------------------------------------
(* The program: it holds at most one &NonEmptyStr (view) and one           *)
(* NonEmptyString (owned), calls the crate's functions on them and on      *)
(* plain texts, and keeps the last call and its outcome (last) until the   *)
(* statement ends.  A panic aborts it.                                     *)

Idle == [op |-> "idle"]

Ready == panic = "" /\ last.op = "idle" /\ hpc = "idle"

TrapMsg == "trap"

\* what a build may do where the behaviour is undefined: go on with the
\* value the unchecked code computes, or trap
Courses(o) == IF o.tag = "UB" THEN {"proceed", "trap"} ELSE {"proceed"}

Proceeds(o, c) == o.tag = "Return" \/ (o.tag = "UB" /\ c = "proceed")

\* the call returns to the program, or aborts it
Finish(rec, o, c) ==
    /\ last' = rec
    /\ panic' = IF o.tag = "Panic" THEN o.val
                ELSE IF Proceeds(o, c) THEN "" ELSE TrapMsg
    /\ ub' = (ub \/ o.tag = "UB")

\* NonEmptyStr::new(t)
StrNew ==
    /\ Ready
    /\ \E t \in Texts :
        LET o == NonEmptyStr_new(build, t) IN
        \E c \in Courses(o) :
            /\ Finish([op |-> "NonEmptyStr::new", a |-> t, out |-> o], o, c)
            /\ view' = IF Proceeds(o, c) /\ o.val.tag = "Some" THEN o.val ELSE view
    /\ UNCHANGED <<build, owned, hvars>>

\* NonEmptyString::new(t)
StringNew ==
    /\ Ready
    /\ \E t \in Texts :
        LET o == Return(NonEmptyString_new(t)) IN
        /\ Finish([op |-> "NonEmptyString::new", a |-> t, out |-> o], o, "proceed")
        /\ owned' = IF o.val.tag = "Some" THEN o.val ELSE owned
    /\ UNCHANGED <<build, view, hvars>>

\* <&NonEmptyStr>::try_from(t), t a &str or a &String
StrTryFrom ==
    /\ Ready
    /\ \E t \in Texts, K \in {"&str", "&String"} :
        LET o == IF K = "&str" THEN TryFrom_str_for_NonEmptyStr(build, t)
                 ELSE TryFrom_String_for_NonEmptyStr(build, t) IN
        \E c \in Courses(o) :
            /\ Finish([op |-> "<&NonEmptyStr>::try_from", a |-> t, kind |-> K,
                       out |-> o], o, c)
            /\ view' = IF Proceeds(o, c) /\ o.val.tag = "Ok"
                       THEN Some(o.val.val) ELSE view
    /\ UNCHANGED <<build, owned, hvars>>

\* NonEmptyString::try_from(t), t a &str, a String or a Cow<str>
StringTryFrom ==
    /\ Ready
    /\ \E t \in Texts, K \in {"&str", "String", "Cow::Borrowed", "Cow::Owned"} :
        LET r == CASE K = "&str" -> TryFrom_str_for_NonEmptyString(t)
                   [] K = "String" -> TryFrom_String_for_NonEmptyString(t)
                   [] K = "Cow::Borrowed" ->
                        TryFrom_Cow_for_NonEmptyString([variant |-> "Borrowed", val |-> t])
                   [] K = "Cow::Owned" ->
                        TryFrom_Cow_for_NonEmptyString([variant |-> "Owned", val |-> t])
            o == Return(r) IN
        /\ Finish([op |-> "NonEmptyString::try_from", a |-> t, kind |-> K,
                   out |-> o], o, "proceed")
        /\ owned' = IF r.tag = "Ok" THEN Some(r.val) ELSE owned
    /\ UNCHANGED <<build, view, hvars>>

\* view -> owned: NonEmptyString::from(view), From::from(view), view.to_owned()
StringFrom ==
    /\ Ready
    /\ view.tag = "Some"
    /\ \E via \in {"NonEmptyString::from", "From::from", "to_owned"} :
        LET o == CASE via = "NonEmptyString::from" -> NonEmptyString_from(build, view.val)
                   [] via = "From::from" ->
                        From_NonEmptyStr_for_NonEmptyString(build, view.val)
                   [] via = "to_owned" -> NonEmptyStr_to_owned(build, view.val) IN
        \E c \in Courses(o) :
            /\ Finish([op |-> "view->owned", a |-> view.val, kind |-> via,
                       out |-> o], o, c)
            /\ owned' = IF Proceeds(o, c) THEN Some(o.val) ELSE owned
    /\ UNCHANGED <<build, view, hvars>>

\* owned -> view: as_ne_str, deref, as_ref, borrow, <&NonEmptyStr>::from(&owned)
AsNeStr ==
    /\ Ready
    /\ owned.tag = "Some"
    /\ \E via \in {"as_ne_str", "deref", "as_ref", "borrow", "From::from"} :
        LET o == CASE via = "as_ne_str" -> NonEmptyString_as_ne_str(build, owned.val)
                   [] via = "deref" -> NonEmptyString_deref(build, owned.val)
                   [] via = "as_ref" ->
                        AsRef_NonEmptyStr_for_NonEmptyString(build, owned.val)
                   [] via = "borrow" ->
                        Borrow_NonEmptyStr_for_NonEmptyString(build, owned.val)
                   [] via = "From::from" ->
                        From_NonEmptyString_for_NonEmptyStr(build, owned.val) IN
        \E c \in Courses(o) :
            /\ Finish([op |-> "owned->view", a |-> owned.val, kind |-> via,
                       out |-> o], o, c)
            /\ view' = IF Proceeds(o, c) THEN Some(o.val) ELSE view
    /\ UNCHANGED <<build, owned, hvars>>

\* owned = owned.clone()
Clone ==
    /\ Ready
    /\ owned.tag = "Some"
    /\ LET o == Return(NonEmptyString_clone(owned.val)) IN
        /\ Finish([op |-> "clone", a |-> owned.val, out |-> o], o, "proceed")
        /\ owned' = Some(o.val)
    /\ UNCHANGED <<build, view, hvars>>

\* view.len_nonzero() / owned.len_nonzero()
LenNonzero ==
    /\ Ready
    /\ \E w \in {"view", "owned"} :
        /\ IF w = "view" THEN view.tag = "Some" ELSE owned.tag = "Some"
        /\ LET self == IF w = "view" THEN view.val ELSE owned.val
               o == IF w = "view" THEN NonEmptyStr_len_nonzero(build, self)
                    ELSE NonEmptyString_len_nonzero(build, self) IN
           \E c \in Courses(o) :
               Finish([op |-> "len_nonzero", a |-> self, out |-> o], o, c)
    /\ UNCHANGED <<build, wvars, hvars>>

\* owned -> view -> owned: NonEmptyString::from(owned.as_ne_str()) and its
\* spellings
RoundTripOwned ==
    /\ Ready
    /\ owned.tag = "Some"
    /\ \E there \in {"as_ne_str", "From::from"},
          back \in {"NonEmptyString::from", "to_owned"} :
        LET v == IF there = "as_ne_str" THEN NonEmptyString_as_ne_str(build, owned.val)
                 ELSE From_NonEmptyString_for_NonEmptyStr(build, owned.val)
            o == IF v.tag = "Panic" THEN v
                 ELSE IF back = "to_owned" THEN NonEmptyStr_to_owned(build, v.val)
                 ELSE NonEmptyString_from(build, v.val) IN
        \E c \in Courses(o) :
            /\ Finish([op |-> "owned->view->owned", a |-> owned.val,
                       kind |-> <<there, back>>, out |-> o], o, c)
            /\ owned' = IF Proceeds(o, c) THEN Some(o.val) ELSE owned
    /\ UNCHANGED <<build, view, hvars>>

\* view -> owned -> view: view.to_owned().as_ne_str()
RoundTripView ==
    /\ Ready
    /\ view.tag = "Some"
    /\ LET w == NonEmptyStr_to_owned(build, view.val)
           o == IF w.tag = "Panic" THEN w
                ELSE NonEmptyString_as_ne_str(build, w.val) IN
        \E c \in Courses(o) :
            /\ Finish([op |-> "view->owned->view", a |-> view.val, out |-> o], o, c)
            /\ view' = IF Proceeds(o, c) THEN Some(o.val) ELSE view
    /\ UNCHANGED <<build, owned, hvars>>

\* the values the program can pass as an operand of kind K: a wrapper it
\* holds or converts from the other one, or the plain text t
Operands(K, t) ==
    IF K \in StrKinds
    THEN {view.val : i \in {1} \cap {IF view.tag = "Some" THEN 1 ELSE 0}}
         \cup {NonEmptyString_as_ne_str(build, owned.val).val :
                  i \in {1} \cap {IF owned.tag = "Some" THEN 1 ELSE 0}}
    ELSE IF K \in StringKinds
    THEN {owned.val : i \in {1} \cap {IF owned.tag = "Some" THEN 1 ELSE 0}}
         \cup {NonEmptyStr_to_owned(build, view.val).val :
                  i \in {1} \cap {IF view.tag = "Some" THEN 1 ELSE 0}}
    ELSE {t}

\* x == y and y == x, one operand at least a wrapper
Eq ==
    /\ Ready
    /\ \E L \in Kinds, R \in Kinds, t \in Texts :
        /\ L \in WrapperKinds \/ R \in WrapperKinds
        /\ \E x \in Operands(L, t), y \in Operands(R, t) :
            last' = [op |-> "eq", a |-> [kind |-> L, v |-> x],
                     b |-> [kind |-> R, v |-> y],
                     out |-> PartialEq_eq(build, L, R, x, y),
                     rev |-> PartialEq_eq(build, R, L, y, x)]
    /\ UNCHANGED <<build, wvars, panic, ub, hvars>>

\* x.partial_cmp(y) (the operators <, <=, >, >=), one operand at least a wrapper
PartialCmp ==
    /\ Ready
    /\ \E L \in Kinds, R \in Kinds, t \in Texts :
        /\ L \in WrapperKinds \/ R \in WrapperKinds
        /\ \E x \in Operands(L, t), y \in Operands(R, t) :
            last' = [op |-> "partial_cmp", a |-> [kind |-> L, v |-> x],
                     b |-> [kind |-> R, v |-> y],
                     out |-> PartialOrd_partial_cmp(L, R, x, y)]
    /\ UNCHANGED <<build, wvars, panic, ub, hvars>>

\* a.borrow() and b.borrow(), compared, ordered and hashed as the keys a
\* and b are: what a map keyed by NonEmptyString does with a &NonEmptyStr
BorrowLookup ==
    /\ Ready
    /\ \E a \in Operands("NonEmptyString", <<>>),
          b \in Operands("NonEmptyString", <<>>) :
        LET va == Borrow_NonEmptyStr_for_NonEmptyString(build, a)
            vb == Borrow_NonEmptyStr_for_NonEmptyString(build, b)
            o == IF va.tag = "Panic" THEN va
                 ELSE IF vb.tag = "Panic" THEN vb
                 ELSE [tag |-> IF "UB" \in {va.tag, vb.tag} THEN "UB" ELSE "Return",
                       val |-> <<va.val, vb.val>>]
            keys == [eq |-> NonEmptyString_eq(a, b),
                     cmp |-> NonEmptyString_cmp(a, b),
                     hash |-> <<NonEmptyString_hash(a), NonEmptyString_hash(b)>>]
            borrowed ==
                IF o.tag = "Panic" THEN None
                ELSE Some([eq |-> NonEmptyStr_eq(va.val, vb.val),
                           cmp |-> NonEmptyStr_cmp(va.val, vb.val),
                           hash |-> <<NonEmptyStr_hash(va.val),
                                      NonEmptyStr_hash(vb.val)>>]) IN
        \E c \in Courses(o) :
            Finish([op |-> "borrow", a |-> a, b |-> b, out |-> o,
                    keys |-> keys, borrowed |-> borrowed], o, c)
    /\ UNCHANGED <<build, wvars, hvars>>

\* a plain text is the type it has and its value: [ty |-> "&str", "&String",
\* "String" or "Cow", v |-> the bytes, or the Cow]

\* the infallible conversions of a &NonEmptyStr into a plain text
PlainOfView(there, w) ==
    CASE there = "as_str" -> [ty |-> "&str", v |-> NonEmptyStr_as_str(w)]
      [] there = "<&str>::from" ->
            [ty |-> "&str", v |-> From_NonEmptyStr_for_str(w)]
      [] there = "String::from" ->
            [ty |-> "String", v |-> From_NonEmptyStr_for_String(w)]
      [] there = "Cow::from" ->
            [ty |-> "Cow", v |-> From_NonEmptyStr_for_Cow(w)]

\* the infallible conversions of a NonEmptyString, or of a reference to
\* it, into a plain text
PlainOfOwned(there, w) ==
    CASE there = "as_str" -> [ty |-> "&str", v |-> NonEmptyString_as_str(w)]
      [] there = "inner" -> [ty |-> "&String", v |-> NonEmptyString_inner(w)]
      [] there = "into_inner" ->
            [ty |-> "String", v |-> NonEmptyString_into_inner(w)]
      [] there = "<&str>::from" ->
            [ty |-> "&str", v |-> From_ref_NonEmptyString_for_str(w)]
      [] there = "String::from" ->
            [ty |-> "String", v |-> From_NonEmptyString_for_String(w)]
      [] there = "Cow::from(owned)" ->
            [ty |-> "Cow", v |-> From_NonEmptyString_for_Cow(w)]
      [] there = "Cow::from(&owned)" ->
            [ty |-> "Cow", v |-> From_ref_NonEmptyString_for_Cow(w)]

\* the types of plain text a checked constructor takes (a &String where a
\* &str is expected is coerced)
Accepts(back) ==
    CASE back = "NonEmptyStr::new" -> {"&str", "&String"}
      [] back = "<&NonEmptyStr>::try_from" -> {"&str", "&String"}
      [] back = "NonEmptyString::new" -> {"String"}
      [] back = "NonEmptyString::try_from" -> {"&str", "String", "Cow"}

\* NonEmptyStr::new(p) and <&NonEmptyStr>::try_from(p)
RevalidateView(b, back, p) ==
    IF back = "NonEmptyStr::new"
    THEN NonEmptyStr_new(b, IF p.ty = "&String" THEN String_as_str(p.v) ELSE p.v)
    ELSE IF p.ty = "&String" THEN TryFrom_String_for_NonEmptyStr(b, p.v)
    ELSE TryFrom_str_for_NonEmptyStr(b, p.v)

\* NonEmptyString::new(p) and NonEmptyString::try_from(p)
RevalidateOwned(back, p) ==
    IF back = "NonEmptyString::new" THEN Return(NonEmptyString_new(p.v))
    ELSE Return(CASE p.ty = "&str" -> TryFrom_str_for_NonEmptyString(p.v)
                  [] p.ty = "String" -> TryFrom_String_for_NonEmptyString(p.v)
                  [] p.ty = "Cow" -> TryFrom_Cow_for_NonEmptyString(p.v))

Revalidate(b, back, p) ==
    IF back \in {"NonEmptyStr::new", "<&NonEmptyStr>::try_from"}
    THEN RevalidateView(b, back, p)
    ELSE RevalidateOwned(back, p)

Backs ==
    {"NonEmptyStr::new", "<&NonEmptyStr>::try_from",
     "NonEmptyString::new", "NonEmptyString::try_from"}

\* view is converted into a plain text, and the text is validated again
UnwrapView ==
    /\ Ready
    /\ view.tag = "Some"
    /\ \E there \in {"as_str", "<&str>::from", "String::from", "Cow::from"},
          back \in Backs :
        LET p == PlainOfView(there, view.val)
            o == Revalidate(build, back, p) IN
        /\ p.ty \in Accepts(back)
        /\ \E c \in Courses(o) :
            Finish([op |-> "unwrap->wrap", a |-> view.val,
                    kind |-> <<there, back>>, plain |-> p, out |-> o], o, c)
    /\ UNCHANGED <<build, wvars, hvars>>

\* owned (a clone of it, where the conversion takes it by value) is
\* converted into a plain text, and the text is validated again
UnwrapOwned ==
    /\ Ready
    /\ owned.tag = "Some"
    /\ \E there \in {"as_str", "inner", "into_inner", "<&str>::from",
                     "String::from", "Cow::from(owned)", "Cow::from(&owned)"},
          back \in Backs :
        LET p == PlainOfOwned(there, owned.val)
            o == Revalidate(build, back, p) IN
        /\ p.ty \in Accepts(back)
        /\ \E c \in Courses(o) :
            Finish([op |-> "unwrap->wrap", a |-> owned.val,
                    kind |-> <<there, back>>, plain |-> p, out |-> o], o, c)
    /\ UNCHANGED <<build, wvars, hvars>>

\* the statement ends: the call's temporaries are dropped
Drop ==
    /\ panic = ""
    /\ last.op # "idle"
    /\ last' = Idle
    /\ UNCHANGED <<build, wvars, panic, ub, hvars>>

InitWrappers ==
    /\ build \in Builds
    /\ view = None
    /\ owned = None
    /\ last = Idle
    /\ panic = ""
    /\ ub = FALSE

InitHashIdle ==
    /\ hin = <<>>
    /\ hpc = "idle"
    /\ hpos = 0
    /\ hash = <<>>

Init == InitWrappers /\ InitHashIdle

Next ==
    \/ StrNew
    \/ StringNew
    \/ StrTryFrom
    \/ StringTryFrom
    \/ StringFrom
    \/ AsNeStr
    \/ Clone
    \/ LenNonzero
    \/ RoundTripOwned
    \/ RoundTripView
    \/ Eq
    \/ PartialCmp
    \/ BorrowLookup
    \/ UnwrapView
    \/ UnwrapOwned
    \/ Drop

\* the program that uses the safe API only
Spec == Init /\ [][Next]_vars

----------------------------------------------------------------------------
(* The program that also calls the unsafe constructors *)

\* unsafe { NonEmptyStr::new_unchecked(t) }
StrNewUnchecked ==
    /\ Ready
    /\ \E t \in Texts :
        LET o == NonEmptyStr_new_unchecked(build, t) IN
        \E c \in Courses(o) :
            /\ Finish([op |-> "NonEmptyStr::new_unchecked", a |-> t, out |-> o], o, c)
            /\ view' = IF Proceeds(o, c) THEN Some(o.val) ELSE view
    /\ UNCHANGED <<build, owned, hvars>>

\* unsafe { NonEmptyString::new_unchecked(t) }
StringNewUnchecked ==
    /\ Ready
    /\ \E t \in Texts :
        LET o == NonEmptyString_new_unchecked(build, t) IN
        \E c \in Courses(o) :
            /\ Finish([op |-> "NonEmptyString::new_unchecked", a |-> t, out |-> o], o, c)
            /\ owned' = IF Proceeds(o, c) THEN Some(o.val) ELSE owned
    /\ UNCHANGED <<build, view, hvars>>

\* unsafe { NonEmptyString::from_unchecked(t) }
StringFromUnchecked ==
    /\ Ready
    /\ \E t \in Texts :
        LET o == NonEmptyString_from_unchecked(build, t) IN
        \E c \in Courses(o) :
            /\ Finish([op |-> "NonEmptyString::from_unchecked", a |-> t, out |-> o], o, c)
            /\ owned' = IF Proceeds(o, c) THEN Some(o.val) ELSE owned
    /\ UNCHANGED <<build, view, hvars>>

NextUnchecked ==
    \/ Next
    \/ StrNewUnchecked
    \/ StringNewUnchecked
    \/ StringFromUnchecked

SpecUnchecked == Init /\ [][NextUnchecked]_vars

----------------------------------------------------------------------------
(* str_hash_fnv1a: src/src/hash.rs.  A u32 is its four bytes, the least    *)
(* significant first.                                                      *)

\* 0x0100_0193
FNV1A32_PRIME == <<147, 1, 0, 1>>

\* 0x811c_9dc5
FNV1A32_SEED == <<197, 157, 28, 129>>

\* ^ on two bytes
RECURSIVE u8_xor(_, _)
u8_xor(a, b) ==
    IF a = 0 /\ b = 0 THEN 0
    ELSE ((a + b) % 2) + 2 * u8_xor(a \div 2, b \div 2)

\* `byte as u32`
u32_from_u8(byte) == <<byte, 0, 0, 0>>

\* ^ on two words of the same width
word_xor(x, y) == [i \in 1..Len(x) |-> u8_xor(x[i], y[i])]

\* the sum of the byte products x[i] * y[j] of weight 256^k
RECURSIVE Column(_, _, _, _)
Column(x, y, k, i) ==
    IF i > k THEN 0 ELSE x[i + 1] * y[k - i + 1] + Column(x, y, k, i + 1)

RECURSIVE MulFrom(_, _, _, _)
MulFrom(x, y, k, carry) ==
    IF k = Len(x) THEN <<>>
    ELSE LET t == Column(x, y, k, 0) + carry
         IN  <<t % 256>> \o MulFrom(x, y, k + 1, t \div 256)

\* wrapping_mul: the product cut to the width of its operands
wrapping_mul(x, y) == MulFrom(x, y, 0, 0)

\* str::as_bytes: a str is its bytes
as_bytes(s) == s

\* mutant of the loop body: multiply first, then xor (FNV-1, not FNV-1a)
fnv1a32_body_fnv1(h, byte) ==
    word_xor(wrapping_mul(h, FNV1A32_PRIME), u32_from_u8(byte))

\* the loop body: hash = (hash ^ *byte as u32).wrapping_mul(FNV1A32_PRIME)
fnv1a32_body(h, byte) ==
    wrapping_mul(word_xor(h, u32_from_u8(byte)), FNV1A32_PRIME)

\* str_hash_fnv1a(s) is called: let mut hash = FNV1A32_SEED
HashCall ==
    /\ Ready
    /\ \E s \in HashTexts : hin' = s
    /\ hpc' = "fnv1a.loop"
    /\ hpos' = 0
    /\ hash' = FNV1A32_SEED
    /\ UNCHANGED <<build, wvars, last, panic, ub>>

\* one iteration of `for byte in s.as_bytes()`
HashIter ==
    /\ hpc = "fnv1a.loop"
    /\ hpos < Len(as_bytes(hin))
    /\ hash' = fnv1a32_body(hash, as_bytes(hin)[hpos + 1])
    /\ hpos' = hpos + 1
    /\ UNCHANGED <<build, wvars, last, panic, ub, hin, hpc>>

\* the loop is over: hash is returned
HashReturn ==
    /\ hpc = "fnv1a.loop"
    /\ hpos = Len(as_bytes(hin))
    /\ hpc' = "fnv1a.return"
    /\ UNCHANGED <<build, wvars, last, panic, ub, hin, hpos, hash>>

\* the caller is done with the hash
HashDrop ==
    /\ hpc = "fnv1a.return"
    /\ hpc' = "idle"
    /\ UNCHANGED <<build, wvars, last, panic, ub, hin, hpos, hash>>

NextHash ==
    \/ HashCall
    \/ HashIter
    \/ HashReturn
    \/ HashDrop

SpecHash == Init /\ [][NextHash]_vars

----------------------------------------------------------------------------
(* str_hash_fnv1a_64: src/src/hash.rs.  A u64 is its eight bytes, the      *)
(* least significant first.                                                *)

\* 0x0000_0100_0000_01B3
FNV1A64_PRIME == <<179, 1, 0, 0, 0, 1, 0, 0>>

\* 0xcbf2_9ce4_8422_2325
FNV1A64_SEED == <<37, 35, 34, 132, 228, 156, 242, 203>>

\* `byte as u64`
u64_from_u8(byte) == <<byte, 0, 0, 0, 0, 0, 0, 0>>

\* mutant of the loop body: the 32-bit prime, 0x0100_0193, is the multiplier
fnv1a64_body_prime32(h, byte) ==
    wrapping_mul(word_xor(h, u64_from_u8(byte)), <<147, 1, 0, 1, 0, 0, 0, 0>>)

\* the loop body: hash = (hash ^ *byte as u64).wrapping_mul(FNV1A64_PRIME)
fnv1a64_body(h, byte) ==
    wrapping_mul(word_xor(h, u64_from_u8(byte)), FNV1A64_PRIME)

\* str_hash_fnv1a_64(s) is called: let mut hash = FNV1A64_SEED
Hash64Call ==
    /\ Ready
    /\ \E s \in HashTexts : hin' = s
    /\ hpc' = "fnv1a_64.loop"
    /\ hpos' = 0
    /\ hash' = FNV1A64_SEED
    /\ UNCHANGED <<build, wvars, last, panic, ub>>

\* one iteration of `for byte in s.as_bytes()`
Hash64Iter ==
    /\ hpc = "fnv1a_64.loop"
    /\ hpos < Len(as_bytes(hin))
    /\ hash' = fnv1a64_body(hash, as_bytes(hin)[hpos + 1])
    /\ hpos' = hpos + 1
    /\ UNCHANGED <<build, wvars, last, panic, ub, hin, hpc>>

\* the loop is over: hash is returned
Hash64Return ==
    /\ hpc = "fnv1a_64.loop"
    /\ hpos = Len(as_bytes(hin))
    /\ hpc' = "fnv1a_64.return"
    /\ UNCHANGED <<build, wvars, last, panic, ub, hin, hpos, hash>>

\* the caller is done with the hash
Hash64Drop ==
    /\ hpc = "fnv1a_64.return"
    /\ hpc' = "idle"
    /\ UNCHANGED <<build, wvars, last, panic, ub, hin, hpos, hash>>

NextHash64 ==
    \/ Hash64Call
    \/ Hash64Iter
    \/ Hash64Return
    \/ Hash64Drop

SpecHash64 == Init /\ [][NextHash64]_vars

----------------------------------------------------------------------------
(* Properties of the safe API (Spec) *)

\* the text a wrapper holds, by the wrapper's own as_str
AsStr(w) ==
    IF w.ty = "NonEmptyStr" THEN NonEmptyStr_as_str(w) ELSE NonEmptyString_as_str(w)

\* the wrappers the last call returned
Returned ==
    IF last.op \in {"NonEmptyStr::new", "NonEmptyString::new"}
    THEN IF last.out.tag # "Panic" /\ last.out.val.tag = "Some"
         THEN {last.out.val.val} ELSE {}
    ELSE IF last.op \in {"<&NonEmptyStr>::try_from", "NonEmptyString::try_from"}
    THEN IF last.out.tag # "Panic" /\ last.out.val.tag = "Ok"
         THEN {last.out.val.val} ELSE {}
    ELSE IF last.op \in {"view->owned", "owned->view", "clone",
                         "owned->view->owned", "view->owned->view"}
    THEN IF last.out.tag # "Panic" THEN {last.out.val} ELSE {}
    ELSE {}

\* C1: after any sequence of safe operations, starting from arbitrary
\* (possibly empty) plain texts, every NonEmptyStr and NonEmptyString that
\* exists wraps a text of length >= 1: the ones the program holds and the
\* ones the last call returned; no precondition of the unchecked code was
\* violated on the way.
C1_NonEmpty ==
    /\ view.tag = "Some" => view.val.ty = "NonEmptyStr" /\ Len(view.val.f0) >= 1
    /\ owned.tag = "Some" => owned.val.ty = "NonEmptyString" /\ Len(owned.val.f0) >= 1
    /\ \A w \in Returned : Len(w.f0) >= 1
    /\ ~ub

C1_Witness ==
    /\ view.tag = "Some"
    /\ owned.tag = "Some"
    /\ last.op = "NonEmptyString::try_from"
    /\ last.a = <<>>

\* C2: for every non-empty text t, NonEmptyStr::new(t) and
\* NonEmptyString::new(t) return Some, and as_str() of the wrapper is t.
C2_NewWrapsText ==
    (last.op \in {"NonEmptyStr::new", "NonEmptyString::new"} /\ last.a # <<>>) =>
        /\ last.out.tag = "Return"
        /\ last.out.val.tag = "Some"
        /\ last.out.val.val.ty =
              (IF last.op = "NonEmptyStr::new" THEN "NonEmptyStr" ELSE "NonEmptyString")
        /\ AsStr(last.out.val.val) = last.a

C2_Witness ==
    /\ last.op = "NonEmptyString::new"
    /\ Len(last.a) = 3
    /\ last.out.val.tag = "Some"

\* C3: a validating constructor given the empty text returns None (new) or
\* Err(()) (try_from) and does not panic; try_from returns Err(()) exactly
\* when the text is empty, and new returns None exactly then.
C3_EmptyRejected ==
    /\ last.op \in {"NonEmptyStr::new", "NonEmptyString::new"} =>
          /\ last.out.tag = "Return"
          /\ (last.out.val = None) <=> (last.a = <<>>)
    /\ last.op \in {"<&NonEmptyStr>::try_from", "NonEmptyString::try_from"} =>
          /\ last.out.tag = "Return"
          /\ (last.out.val = Err) <=> (last.a = <<>>)
    /\ panic = ""

C3_Witness ==
    /\ last.op = "NonEmptyString::try_from"
    /\ last.kind = "Cow::Owned"
    /\ last.a = <<>>
    /\ last.out.val = Err

\* C6: len_nonzero() of a NonEmptyStr or NonEmptyString reached through the
\* safe API returns (its unwrap does not fail) a length >= 1 that is the
\* length in bytes of as_str().
C6_LenNonzero ==
    last.op = "len_nonzero" =>
        /\ last.out.tag = "Return"
        /\ last.out.val >= 1
        /\ last.out.val = Len(AsStr(last.a))

C6_Witness ==
    /\ last.op = "len_nonzero"
    /\ last.a.ty = "NonEmptyString"
    /\ last.out.val = 1

\* C7: owned -> borrowed -> owned succeeds and yields a value equal to the
\* NonEmptyString it started from; v.to_owned().as_ne_str() equals the
\* NonEmptyStr v.
C7_RoundTrip ==
    /\ last.op = "owned->view->owned" =>
          /\ last.out.tag = "Return"
          /\ last.out.val = last.a
          /\ NonEmptyString_eq(last.out.val, last.a)
    /\ last.op = "view->owned->view" =>
          /\ last.out.tag = "Return"
          /\ last.out.val = last.a
          /\ NonEmptyStr_eq(last.out.val, last.a)

C7_Witness ==
    /\ last.op = "owned->view->owned"
    /\ last.kind = <<"From::from", "to_owned">>
    /\ Len(last.a.f0) > 1
    /\ last.out.tag = "Return"

\* the plain text under an operand
TextOf(opnd) == IF opnd.kind \in WrapperKinds THEN opnd.v.f0 ELSE opnd.v

\* C8: for two operands, one at least a wrapper, each a NonEmptyStr, a
\* NonEmptyString, a str or a String by value or by reference, a == b
\* compiles and is the comparison of the two underlying texts (so it is
\* reflexive), and b == a is the same.
C8_EqIsTextEq ==
    last.op = "eq" =>
        /\ last.out = Some(TextOf(last.a) = TextOf(last.b))
        /\ last.rev = last.out

C8_Witness ==
    /\ last.op = "eq"
    /\ last.a.kind = "&NonEmptyStr"
    /\ last.b.kind = "NonEmptyString"
    /\ last.out = Some(TRUE)

\* the lexicographic order of two byte sequences: decided at the first place
\* they differ, or by their lengths when one is a prefix of the other
LexOrder(x, y) ==
    LET n == IF Len(x) < Len(y) THEN Len(x) ELSE Len(y)
        d == {i \in 1..n : x[i] # y[i]}
    IN  IF d = {}
        THEN IF Len(x) < Len(y) THEN "Less"
             ELSE IF Len(x) > Len(y) THEN "Greater" ELSE "Equal"
        ELSE LET k == CHOOSE i \in d : \A j \in d : i <= j
             IN  IF x[k] < y[k] THEN "Less" ELSE "Greater"

C12_BorrowConsistent ==
    last.op = "borrow" =>
        /\ last.out.tag = "Return"
        /\ last.borrowed.tag = "Some"
        /\ last.borrowed.val.eq = last.keys.eq
        /\ last.borrowed.val.cmp = last.keys.cmp
        /\ last.borrowed.val.hash = last.keys.hash

C12_Witness ==
    /\ last.op = "borrow"
    /\ last.a.f0 # last.b.f0
    /\ last.out.tag = "Return"
    /\ last.out.val[1].ty = "NonEmptyStr"
    /\ last.keys.eq = FALSE
    /\ last.keys.cmp = "Less"
    /\ last.borrowed.val.cmp = "Less"

\* the bytes of a plain text
PlainText(p) == IF p.ty = "Cow" THEN p.v.val ELSE p.v

\* the kind a wrapper is compared as
KindOf(w) == IF w.ty = "NonEmptyStr" THEN "&NonEmptyStr" ELSE "NonEmptyString"

\* C13: the plain text an infallible conversion (as_str, inner, into_inner,
\* From into &str, String or Cow<str>) makes of a wrapper is not empty and
\* is the wrapped text; new and try_from (of a Cow<str> too, Borrowed or
\* Owned) given that text succeed, and the wrapper they return holds the
\* text of the first one, compares equal to it, and is the same value when
\* it has the same type.
C13_UnwrapRevalidate ==
    last.op = "unwrap->wrap" =>
        /\ PlainText(last.plain) # <<>>
        /\ PlainText(last.plain) = last.a.f0
        /\ last.out.tag = "Return"
        /\ last.out.val.tag =
              (IF last.kind[2] \in {"NonEmptyStr::new", "NonEmptyString::new"}
               THEN "Some" ELSE "Ok")
        /\ last.out.val.val.f0 = last.a.f0
        /\ last.out.val.val.ty = last.a.ty => last.out.val.val = last.a
        /\ PartialEq_eq(build, KindOf(last.out.val.val), KindOf(last.a),
                        last.out.val.val, last.a) = Some(TRUE)

C13_Witness ==
    /\ last.op = "unwrap->wrap"
    /\ last.kind = <<"Cow::from(owned)", "NonEmptyString::try_from">>
    /\ last.plain.v.variant = "Owned"
    /\ Len(last.a.f0) > 1
    /\ last.out = Return(Ok(last.a))

----------------------------------------------------------------------------
(* Properties of the unsafe constructors (SpecUnchecked) *)

UncheckedOps ==
    {"NonEmptyStr::new_unchecked", "NonEmptyString::new_unchecked",
     "NonEmptyString::from_unchecked"}

UncheckedEmpty == build = "debug" /\ last.op \in UncheckedOps /\ last.a = <<>>

\* C4, as the spec states it: in a debug build an unchecked constructor
\* given the empty text fails an assertion whose message is "tried to
\* create a non-empty string from an empty source".
C4_SpecMessage ==
    UncheckedEmpty =>
        /\ last.out.tag = "Panic"
        /\ last.out.val = "tried to create a non-empty string from an empty source"

\* C4, amended: in a debug build an unchecked constructor given the empty
\* text panics and returns no wrapper; the message is "tried to create a
\* non-empty string slice from an empty string" for
\* NonEmptyStr::new_unchecked and "tried to create a non-empty string from
\* an empty string" for NonEmptyString::new_unchecked and from_unchecked.
\* No empty wrapper exists in a debug build.
C4_DebugAssert ==
    /\ UncheckedEmpty =>
          /\ last.out.tag = "Panic"
          /\ last.out.val =
                (IF last.op = "NonEmptyStr::new_unchecked"
                 THEN "tried to create a non-empty string slice from an empty string"
                 ELSE "tried to create a non-empty string from an empty string")
          /\ panic = last.out.val
    /\ build = "debug" =>
          /\ view.tag = "Some" => Len(view.val.f0) >= 1
          /\ owned.tag = "Some" => Len(owned.val.f0) >= 1

C4_Witness ==
    /\ UncheckedEmpty
    /\ last.op = "NonEmptyStr::new_unchecked"
    /\ panic # ""

\* C5: for every non-empty text t and in either build, an unchecked
\* constructor returns what the validating constructor returns, unwrapped:
\* a wrapper of its type whose text is t; no assertion fires.
C5_UncheckedAsNew ==
    (last.op \in UncheckedOps /\ last.a # <<>>) =>
        /\ last.out.tag = "Return"
        /\ panic = ""
        /\ AsStr(last.out.val) = last.a
        /\ IF last.op = "NonEmptyStr::new_unchecked"
           THEN Some(last.out.val) = NonEmptyStr_new(build, last.a).val
           ELSE Some(last.out.val) = NonEmptyString_new(last.a)

C5_Witness ==
    /\ last.op = "NonEmptyString::from_unchecked"
    /\ build = "release"
    /\ Len(last.a) = 3
    /\ last.out.tag = "Return"

----------------------------------------------------------------------------
(* Properties of str_hash_fnv1a (SpecHash) *)

\* a u32 as its two 16-bit halves, <<high, low>>
Halves(w) == <<w[4] * 256 + w[3], w[2] * 256 + w[1]>>

\* a xor b of two bytes, bit by bit
XorBits(a, b) ==
    LET bit(n, i) == (n \div (2 ^ i)) % 2
        S[i \in 0..8] == IF i = 8 THEN 0
                         ELSE ((bit(a, i) + bit(b, i)) % 2) * (2 ^ i) + S[i + 1]
    IN  S[0]

\* ((h XOR byte) * 0x01000193) mod 2^32 on the halves of h: 0x01000193 is
\* 2^24 + 403
Fnv1a32RefStep(h, byte) ==
    LET lo == (h[2] \div 256) * 256 + XorBits(h[2] % 256, byte)
        p == lo * 403
    IN  <<(h[1] * 403 + (p \div 65536) + (lo % 256) * 256) % 65536, p % 65536>>

\* the 32-bit FNV-1a reference: from the seed 0x811c9dc5, one step a byte
RECURSIVE Fnv1a32Ref(_)
Fnv1a32Ref(bytes) ==
    IF bytes = <<>> THEN <<33052, 40389>>
    ELSE Fnv1a32RefStep(Fnv1a32Ref(SubSeq(bytes, 1, Len(bytes) - 1)),
                        bytes[Len(bytes)])

\* C10: str_hash_fnv1a(s) is the 32-bit FNV-1a reference of the bytes of s;
\* it is in 0..2^32-1, the empty string hashes to the seed 0x811c9dc5 and
\* "foo" to 0xa9f37ed7.  In the loop, hash is the reference of the bytes
\* read so far.
C10_Fnv1a32 ==
    /\ hpc = "fnv1a.loop" => Halves(hash) = Fnv1a32Ref(SubSeq(hin, 1, hpos))
    /\ hpc = "fnv1a.return" =>
          /\ Halves(hash) = Fnv1a32Ref(hin)
          /\ Len(hash) = 4
          /\ \A i \in 1..4 : hash[i] \in 0..255
          /\ hin = <<>> => Halves(hash) = <<33052, 40389>>
          /\ hin = <<102, 111, 111>> => Halves(hash) = <<43507, 32471>>

C10_Witness ==
    /\ hpc = "fnv1a.return"
    /\ hin = <<102, 111, 111>>
    /\ hash = <<215, 126, 243, 169>>

----------------------------------------------------------------------------
(* Properties of str_hash_fnv1a_64 (SpecHash64) *)

\* a u64 as its four 16-bit quarters, the most significant first
Quarters(w) ==
    <<w[8] * 256 + w[7], w[6] * 256 + w[5], w[4] * 256 + w[3], w[2] * 256 + w[1]>>

\* ((h XOR byte) * 0x00000100000001B3) mod 2^64 on the quarters of h:
\* 0x00000100000001B3 is 2^40 + 435, so the product is 435 times the word
\* plus the word shifted left by 40 bits
Fnv1a64RefStep(h, byte) ==
    LET q0 == (h[4] \div 256) * 256 + XorBits(h[4] % 256, byte)
        p0 == q0 * 435
        p1 == h[3] * 435 + (p0 \div 65536)
        p2 == h[2] * 435 + (p1 \div 65536) + (q0 % 256) * 256
        p3 == h[1] * 435 + (p2 \div 65536) + (q0 \div 256) + (h[3] % 256) * 256
    IN  <<p3 % 65536, p2 % 65536, p1 % 65536, p0 % 65536>>

\* the 64-bit FNV-1a reference: from the seed 0xcbf29ce484222325, one step
\* a byte
RECURSIVE Fnv1a64Ref(_)
Fnv1a64Ref(bytes) ==
    IF bytes = <<>> THEN <<52210, 40164, 33826, 8997>>
    ELSE Fnv1a64RefStep(Fnv1a64Ref(SubSeq(bytes, 1, Len(bytes) - 1)),
                        bytes[Len(bytes)])

\* C11: str_hash_fnv1a_64(s) is the 64-bit FNV-1a reference of the bytes of
\* s; the empty string hashes to the seed 0xcbf29ce484222325 and "foo" to
\* 0xdcb27518fed9d577.  In the loop, hash is the reference of the bytes read
\* so far.
C11_Fnv1a64 ==
    /\ hpc = "fnv1a_64.loop" => Quarters(hash) = Fnv1a64Ref(SubSeq(hin, 1, hpos))
    /\ hpc = "fnv1a_64.return" =>
          /\ Quarters(hash) = Fnv1a64Ref(hin)
          /\ Len(hash) = 8
          /\ \A i \in 1..8 : hash[i] \in 0..255
          /\ hin = <<>> => Quarters(hash) = <<52210, 40164, 33826, 8997>>
          /\ hin = <<102, 111, 111>> =>
                Quarters(hash) = <<56498, 29976, 65241, 54647>>

C11_Witness ==
    /\ hpc = "fnv1a_64.return"
    /\ hin = <<102, 111, 111>>
    /\ hash = <<119, 213, 217, 254, 24, 117, 178, 220>>

====
